---- MODULE Spec2Model ----
(***************************************************************************)
(* A model of the lwm2m-registry crate: the Version parser (src/lib.rs),   *)
(* the field decoders (src/deserialize.rs), the document loader            *)
(* (src/spec_files.rs) and the Registry with its queries (src/lib.rs).     *)
(*                                                                         *)
(* Text that the code inspects character by character (version strings,   *)
(* file names) is a sequence of one-character strings; text that the code  *)
(* only compares as a whole (names, URNs, field codes) is a TLA+ string.   *)
(* Option<T> is a sequence of length at most one: None is << >> and        *)
(* Some(x) is <<x>>.  Result<T, E> is a record with a field ok.            *)
(***************************************************************************)
EXTENDS Integers, Sequences, FiniteSets, TLC

VARIABLES
    fs,          \* the file system: root path -> what WalkDir yields for it
    changes,     \* how many times the environment has rewritten fs
    state,       \* "Uninitialized" or "Loaded" (a Registry value exists)
    directories, \* Registry.directories
    objects,     \* Registry.objects
    pc,          \* "idle", or "loading" while spec_files::load runs
    caller,      \* who awaits the running load: "init" or "reload"
    ldirs,       \* load's parameter directories
    di,          \* load: index of the directory being walked
    ei,          \* load: index of the next entry of that walk
    acc,         \* load's local vector objects
    ret,         \* what the last init / reload returned: "none", "Ok", "Err"
    prev,        \* history: Registry.objects when the running call began
    vstr,        \* the string handed to Version::from_str
    vres,        \* its result
    qop,         \* the last query made
    qargs,       \* its arguments
    qres         \* its result

vars == <<fs, changes, state, directories, objects, pc, caller, ldirs, di, ei,
          acc, ret, prev, vstr, vres, qop, qargs, qres>>

regVars == <<fs, changes, state, directories, objects, pc, caller, ldirs, di,
             ei, acc, ret, prev>>
verVars == <<vstr, vres>>
qryVars == <<qop, qargs, qres>>

(***************************************************************************)
(* Bounds of the model.                                                    *)
(***************************************************************************)
MaxVLen == 5        \* longest version string drawn as an input
MaxFsChanges == 1   \* rewrites of the file system between loads
MaxObjs == 3        \* longest collection drawn for the queries
MaxVer == 2         \* greatest small major / minor drawn for comparisons

U16Max == 65535

None == << >>
Some(x) == <<x>>

Ok(v) == [ok |-> TRUE, val |-> v]
Err(k) == [ok |-> FALSE, err |-> k]

(***************************************************************************)
(* Text primitives.                                                        *)
(***************************************************************************)
DigitChars == {"0", "1", "2", "3", "4", "5", "6", "7", "8", "9"}

DigitVal(c) ==
    CASE c = "0" -> 0 [] c = "1" -> 1 [] c = "2" -> 2 [] c = "3" -> 3
      [] c = "4" -> 4 [] c = "5" -> 5 [] c = "6" -> 6 [] c = "7" -> 7
      [] c = "8" -> 8 [] c = "9" -> 9

IsWhitespace(c) == c \in {" ", "\t", "\n", "\r"}

RECURSIVE TrimStart(_)
TrimStart(s) ==
    IF s # << >> /\ IsWhitespace(Head(s)) THEN TrimStart(Tail(s)) ELSE s

RECURSIVE TrimEnd(_)
TrimEnd(s) ==
    IF s # << >> /\ IsWhitespace(s[Len(s)])
    THEN TrimEnd(SubSeq(s, 1, Len(s) - 1))
    ELSE s

\* str::trim
Trim(s) == TrimEnd(TrimStart(s))

\* str::split(sep): the segments between the separators; n separators give
\* n + 1 segments, so the result is never empty.
RECURSIVE SplitFrom(_, _, _)
SplitFrom(s, sep, cur) ==
    IF s = << >> THEN <<cur>>
    ELSE IF Head(s) = sep THEN <<cur>> \o SplitFrom(Tail(s), sep, << >>)
    ELSE SplitFrom(Tail(s), sep, Append(cur, Head(s)))

Split(s, sep) == SplitFrom(s, sep, << >>)

\* str::ends_with
EndsWith(s, suffix) ==
    /\ Len(s) >= Len(suffix)
    /\ SubSeq(s, Len(s) - Len(suffix) + 1, Len(s)) = suffix

(***************************************************************************)
(* Version (src/lib.rs).                                                   *)
(***************************************************************************)
VersionNew(major, minor) == [major |-> major, minor |-> minor]

\* <u16 as FromStr>::from_str, as called by num.parse(): an empty string and
\* a lone sign are errors, one leading '+' is skipped, every other character
\* must be a decimal digit, and the accumulation is checked against u16.
RECURSIVE ParseU16Digits(_, _)
ParseU16Digits(s, result) ==
    IF s = << >> THEN Ok(result)
    ELSE IF Head(s) \notin DigitChars THEN Err("ParseIntError")
    ELSE IF result * 10 + DigitVal(Head(s)) > U16Max THEN Err("ParseIntError")
    ELSE ParseU16Digits(Tail(s), result * 10 + DigitVal(Head(s)))

ParseU16(s) ==
    IF s = << >> THEN Err("ParseIntError")
    ELSE IF Len(s) = 1 /\ Head(s) \in {"+", "-"} THEN Err("ParseIntError")
    ELSE IF Head(s) = "+" THEN ParseU16Digits(Tail(s), 0)
    ELSE ParseU16Digits(s, 0)

\* impl From<ParseIntError> for ParseVersionError
FromParseIntError(e) == Err("ParseVersionError")

\* Version::parse_digit
\* num.parse()?: the value, or the error converted.
TryParse(r) == IF r.ok THEN Ok(r.val) ELSE FromParseIntError(r)

parse_digit(num) ==
    IF num # None THEN TryParse(ParseU16(num[1]))
    ELSE Err("ParseVersionError")

\* Iterator::next on the split: the segment at position k, if there is one.
NextOf(numbers, k) == IF k <= Len(numbers) THEN Some(numbers[k]) ELSE None

\* The arm for one segment: Version { major: parse_digit(..)?, minor: 0 }.
VersionOfOne(major) ==
    IF major.ok THEN Ok(VersionNew(major.val, 0)) ELSE major

\* The arm for two segments; each ? returns the first error met.
VersionOfTwo(major, minor) ==
    IF ~major.ok THEN major
    ELSE IF ~minor.ok THEN minor
    ELSE Ok(VersionNew(major.val, minor.val))

\* The match on the number of segments.
VersionOfSegments(numbers) ==
    CASE Len(numbers) = 1 -> VersionOfOne(parse_digit(NextOf(numbers, 1)))
      [] Len(numbers) = 2 -> VersionOfTwo(parse_digit(NextOf(numbers, 1)),
                                          parse_digit(NextOf(numbers, 2)))
      [] OTHER -> Err("ParseVersionError")

\* from_str without the outer trim.
from_str_untrimmed(s) == VersionOfSegments(Split(s, "."))

\* impl FromStr for Version
from_str(s) == VersionOfSegments(Split(Trim(s), "."))

(***************************************************************************)
(* Field decoders (src/deserialize.rs).  Each takes the text of one        *)
(* element of the document.                                                *)
(***************************************************************************)
\* The match of deserialize_version on the parse result.
VersionOrInvalid(version) ==
    IF version.ok THEN Ok(version.val) ELSE Err("invalid_value")

deserialize_version(s) == VersionOrInvalid(from_str(s))

deserialize_multiple_instances(s) ==
    CASE s = "Multiple" -> Ok(TRUE)
      [] s = "Single" -> Ok(FALSE)
      [] OTHER -> Err("unknown_variant")

deserialize_mandatory(s) ==
    CASE s = "Mandatory" -> Ok(TRUE)
      [] s = "Optional" -> Ok(FALSE)
      [] OTHER -> Err("unknown_variant")

\* A decoder of operations that rejects the codes it does not know.
deserialize_operations_strict(s) ==
    CASE s = "R" -> Ok("Read")
      [] s = "W" -> Ok("Write")
      [] s = "RW" -> Ok("ReadWrite")
      [] s = "E" -> Ok("Execute")
      [] OTHER -> Err("unknown_variant")

deserialize_operations(s) ==
    CASE s = "R" -> Ok("Read")
      [] s = "W" -> Ok("Write")
      [] s = "RW" -> Ok("ReadWrite")
      [] s = "E" -> Ok("Execute")
      [] OTHER -> Ok("None")

deserialize_resource_type(s) ==
    CASE s = "String" -> Ok("String")
      [] s = "Integer" -> Ok("Integer")
      [] s = "Float" -> Ok("Float")
      [] s = "Boolean" -> Ok("Boolean")
      [] s = "Opaque" -> Ok("Opaque")
      [] s = "Time" -> Ok("Time")
      [] s = "Objlnk" -> Ok("ObjectLink")
      [] s = "Unsigned Integer" -> Ok("UnsignedInteger")
      [] s = "Corelnk" -> Ok("Corelink")
      [] OTHER -> Ok("Other")

\* The first error among a sequence of results, or the sequence of values.
AllOk(rs) == \A i \in 1..Len(rs) : rs[i].ok
FirstErr(rs) == rs[CHOOSE i \in 1..Len(rs) :
                       ~rs[i].ok /\ \A j \in 1..(i - 1) : rs[j].ok]
Collect(rs) == IF AllOk(rs) THEN Ok([i \in 1..Len(rs) |-> rs[i].val])
               ELSE FirstErr(rs)

\* #[derive(Deserialize)] struct Resource: the element <Item> as the record
\* [ID, Name, Operations, MultipleInstances, Mandatory, Type] of its texts.
ResourceOf(item, fields) ==
    IF ~AllOk(fields) THEN FirstErr(fields)
    ELSE Ok([id |-> item.ID,
             name |-> item.Name,
             operations |-> fields[1].val,
             has_multiple_instances |-> fields[2].val,
             is_mandatory |-> fields[3].val,
             resource_type |-> fields[4].val])

DeserializeResource(item) ==
    ResourceOf(item, <<deserialize_operations(item.Operations),
                       deserialize_multiple_instances(item.MultipleInstances),
                       deserialize_mandatory(item.Mandatory),
                       deserialize_resource_type(item.Type)>>)

\* The wrapper <Resources>: its <Item> children, none of them included.
deserialize_unwrap_resources_list(items) ==
    Collect([i \in 1..Len(items) |-> DeserializeResource(items[i])])

\* #[derive(Deserialize)] struct Object: the element <Object> as the record
\* of its texts; Resources is the sequence of <Item> elements.
ObjectOf(el, fields) ==
    IF ~AllOk(fields) THEN FirstErr(fields)
    ELSE Ok([name |-> el.Name,
             object_id |-> el.ObjectID,
             object_urn |-> el.ObjectURN,
             object_version |-> fields[1].val,
             lwm2m_version |-> fields[2].val,
             has_multiple_instances |-> fields[3].val,
             is_mandatory |-> fields[4].val,
             resources |-> fields[5].val])

DeserializeObject(el) ==
    ObjectOf(el, <<deserialize_version(el.ObjectVersion),
                   deserialize_version(el.LWM2MVersion),
                   deserialize_multiple_instances(el.MultipleInstances),
                   deserialize_mandatory(el.Mandatory),
                   deserialize_unwrap_resources_list(el.Resources)>>)

\* #[derive(Deserialize)] struct LwM2MSpec, through serde_xml_rs::from_str: a
\* text that is not a document of the expected shape is an error, and so is
\* the first <Object> that fails to decode.
\* A decoder that skips the objects that fail and keeps the others.
OkOnes(rs) ==
    [k \in 1..Cardinality({i \in 1..Len(rs) : rs[i].ok}) |->
        rs[CHOOSE i \in 1..Len(rs) :
              /\ rs[i].ok
              /\ Cardinality({j \in 1..i : rs[j].ok}) = k].val]

DeserializeLwM2MSpecSkipping(text) ==
    IF ~text.wellformed THEN Err("structural")
    ELSE Ok([objects |-> OkOnes([i \in 1..Len(text.elements) |->
                                    DeserializeObject(text.elements[i])])])

SpecOf(objs) == IF objs.ok THEN Ok([objects |-> objs.val]) ELSE objs

DeserializeLwM2MSpec(text) ==
    IF ~text.wellformed THEN Err("structural")
    ELSE SpecOf(Collect([i \in 1..Len(text.elements) |->
                            DeserializeObject(text.elements[i])]))

(***************************************************************************)
(* Document loader (src/spec_files.rs).  A file is the record              *)
(*   [type, path, openable, readable, utf8, text]                          *)
(* where text is what from_utf8 gives when it succeeds.                    *)
(***************************************************************************)
deserialize_spec_file(file) ==
    IF ~file.readable THEN Err("io")
    ELSE IF ~file.utf8 THEN Err("utf8")
    ELSE DeserializeLwM2MSpec(file.text)

\* File::open
FileOpen(entry) == IF entry.openable THEN Ok(entry) ELSE Err("io")

DotXml == <<".", "x", "m", "l">>

\* The body of load's inner loop for one entry the walk yielded without an
\* error: the objects it appends to the local vector.
\* if let Ok(spec) = deserialize_spec_file(file).await { push each object }
SpecObjects(spec) == IF spec.ok THEN spec.val.objects ELSE << >>

\* if let Ok(file) = File::open(..).await { .. }
OpenedObjects(file) ==
    IF file.ok THEN SpecObjects(deserialize_spec_file(file.val)) ELSE << >>

\* The loop body without the test of the suffix.
EntryObjectsAnySuffix(entry) ==
    IF entry.type = "file" THEN OpenedObjects(FileOpen(entry)) ELSE << >>

EntryObjects(entry) ==
    IF entry.type = "file"
    THEN IF EndsWith(entry.path, DotXml)
         THEN OpenedObjects(FileOpen(entry))
         ELSE << >>
    ELSE << >>

(***************************************************************************)
(* The documents and directory entries the file system is built from.      *)
(***************************************************************************)
ItemShortServerId ==
    [ID |-> 0, Name |-> "Short Server ID", Operations |-> "R",
     MultipleInstances |-> "Single", Mandatory |-> "Mandatory",
     Type |-> "Integer"]

ItemDisable ==
    [ID |-> 4, Name |-> "Disable", Operations |-> "E",
     MultipleInstances |-> "Single", Mandatory |-> "Optional",
     Type |-> ""]

ElServer11 ==
    [Name |-> "LwM2M Server", ObjectID |-> 1,
     ObjectURN |-> "urn:oma:lwm2m:oma:1:1.1",
     ObjectVersion |-> <<"1", ".", "1">>, LWM2MVersion |-> <<"1", ".", "1">>,
     MultipleInstances |-> "Multiple", Mandatory |-> "Mandatory",
     Resources |-> <<ItemShortServerId, ItemDisable>>]

ElServer12 ==
    [ElServer11 EXCEPT !.ObjectURN = "urn:oma:lwm2m:oma:1:1.2",
                       !.ObjectVersion = <<"1", ".", "2">>,
                       !.LWM2MVersion = <<"1", ".", "2">>]

ElDevice ==
    [Name |-> "Device", ObjectID |-> 3,
     ObjectURN |-> "urn:oma:lwm2m:oma:3:1.1",
     ObjectVersion |-> <<" ", "1", ".", "1">>, LWM2MVersion |-> <<"1">>,
     MultipleInstances |-> "Single", Mandatory |-> "Mandatory",
     Resources |-> << >>]

\* Documents that fail to decode: a strict field with an unknown code (in the
\* object, in one of its resources) and a version that does not parse.
ElBadMultiple == [ElDevice EXCEPT !.MultipleInstances = "Many"]
ElBadVersion == [ElDevice EXCEPT !.ObjectVersion = <<"1", ".", "1", ".", "0">>]
ElBadItem ==
    [ElServer12 EXCEPT !.Resources =
        <<ItemShortServerId, [ItemDisable EXCEPT !.Mandatory = "Maybe"]>>]

Document(elements) == [wellformed |-> TRUE, elements |-> elements]
NotADocument == [wellformed |-> FALSE, elements |-> << >>]

PathXml == <<"a", ".", "x", "m", "l">>
PathUpperXml == <<"a", ".", "X", "M", "L">>
PathTxt == <<"a", ".", "t", "x", "t">>
PathNoDot == <<"a", "x", "m", "l">>

File(path, text) ==
    [type |-> "file", path |-> path, openable |-> TRUE, readable |-> TRUE,
     utf8 |-> TRUE, text |-> text]

\* What the walk yields that is no regular file: a directory (the root comes
\* first in its own walk), and an entry the walk could not read.
DirEntry == [File(<<"d">>, NotADocument) EXCEPT !.type = "dir"]
WalkError == [File(<<"d">>, NotADocument) EXCEPT !.type = "err"]

FileServer11 == File(PathXml, Document(<<ElServer11>>))
FileServer12Device == File(PathXml, Document(<<ElServer12, ElDevice>>))
FileStrictError == File(PathXml, Document(<<ElDevice, ElBadMultiple>>))
FileItemError == File(PathXml, Document(<<ElBadItem>>))
FileVersionError == File(PathXml, Document(<<ElBadVersion, ElServer11>>))
FileNotXml == File(PathXml, NotADocument)
FileEmptyDocument == File(PathXml, Document(<< >>))
FileTxt == File(PathTxt, Document(<<ElDevice>>))
FileUpperXml == File(PathUpperXml, Document(<<ElDevice>>))
FileNoDot == File(PathNoDot, Document(<<ElDevice>>))
FileUnopenable == [File(PathXml, Document(<<ElDevice>>)) EXCEPT !.openable = FALSE]
FileUnreadable == [File(PathXml, Document(<<ElDevice>>)) EXCEPT !.readable = FALSE]
FileNotUtf8 == [File(PathXml, Document(<<ElDevice>>)) EXCEPT !.utf8 = FALSE]

EntrySet ==
    {DirEntry, WalkError, FileServer11, FileServer12Device, FileStrictError,
     FileItemError, FileVersionError, FileNotXml, FileEmptyDocument, FileTxt,
     FileUpperXml, FileNoDot, FileUnopenable, FileUnreadable, FileNotUtf8}

Roots == {"d1", "d2"}

\* The directory lists a caller hands to Registry::init.
DirectoryLists == {<<"d1">>, <<"d1", "d2">>, <<"d2", "d1">>, << >>}

\* The file system at the start: one well-formed document, one document with
\* a strict-field error and one file that is not .xml in d1; one well-formed
\* document of two objects in d2.
InitialFs ==
    [d \in Roots |->
        IF d = "d1" THEN <<DirEntry, FileServer11, FileStrictError, FileTxt>>
        ELSE <<DirEntry, FileServer12Device>>]

NotParsed == [ok |-> FALSE, err |-> "not parsed"]

(***************************************************************************)
(* Registry (src/lib.rs) and the load it awaits (src/spec_files.rs).       *)
(***************************************************************************)
\* No load is running.
LoaderIdle ==
    /\ pc = "idle"
    /\ caller = "none"
    /\ ldirs = << >>
    /\ di = 1
    /\ ei = 1
    /\ acc = << >>
    /\ ret = "none"
    /\ prev = << >>

\* No version has been parsed and no query made.
NoVersion == vstr = << >> /\ vres = NotParsed
NoQuery == qop = "none" /\ qargs = << >> /\ qres = << >>

Init ==
    /\ fs = InitialFs
    /\ changes = 0
    /\ state = "Uninitialized"
    /\ directories = << >>
    /\ objects = << >>
    /\ LoaderIdle
    /\ NoVersion
    /\ NoQuery

\* The environment rewrites one entry of one walk.  It does so between
\* loads: the directories are taken not to change while a load reads them.
FsChange ==
    /\ pc = "idle"
    /\ changes < MaxFsChanges
    /\ \E d \in Roots : \E i \in 1..Len(fs[d]) : \E e \in EntrySet :
          /\ fs[d][i] # e
          /\ fs' = [fs EXCEPT ![d][i] = e]
    /\ changes' = changes + 1
    /\ UNCHANGED <<state, directories, objects, pc, caller, ldirs, di, ei,
                   acc, ret, prev>>
    /\ UNCHANGED <<verVars, qryVars>>

\* Registry::init up to its await: load starts with an empty local vector.
InitCall ==
    /\ pc = "idle"
    /\ state = "Uninitialized"
    /\ \E dirs \in DirectoryLists : ldirs' = dirs
    /\ pc' = "loading"
    /\ caller' = "init"
    /\ di' = 1
    /\ ei' = 1
    /\ acc' = << >>
    /\ ret' = "none"
    /\ prev' = objects
    /\ UNCHANGED <<fs, changes, state, directories, objects>>
    /\ UNCHANGED <<verVars, qryVars>>

\* Registry::reload up to its await.
ReloadCall ==
    /\ pc = "idle"
    /\ state = "Loaded"
    /\ ldirs' = directories
    /\ pc' = "loading"
    /\ caller' = "reload"
    /\ di' = 1
    /\ ei' = 1
    /\ acc' = << >>
    /\ ret' = "none"
    /\ prev' = objects
    /\ UNCHANGED <<fs, changes, state, directories, objects>>
    /\ UNCHANGED <<verVars, qryVars>>

\* load: the walk of the current directory has a next entry.
HasEntry == di <= Len(ldirs) /\ ei <= Len(fs[ldirs[di]])
CurrentEntry == fs[ldirs[di]][ei]

\* An iteration that pushes to self.objects while reload is running.
LoadEntryInPlace ==
    /\ pc = "loading"
    /\ HasEntry
    /\ CurrentEntry.type # "err"
    /\ acc' = acc \o EntryObjects(CurrentEntry)
    /\ objects' = IF caller = "reload" THEN acc' ELSE objects
    /\ ei' = ei + 1
    /\ UNCHANGED <<fs, changes, state, directories, pc, caller, ldirs, di,
                   ret, prev>>
    /\ UNCHANGED <<verVars, qryVars>>

\* An iteration that puts the objects of the entry in front of the vector.
LoadEntryInFront ==
    /\ pc = "loading"
    /\ HasEntry
    /\ CurrentEntry.type # "err"
    /\ acc' = EntryObjects(CurrentEntry) \o acc
    /\ ei' = ei + 1
    /\ UNCHANGED <<fs, changes, state, directories, objects, pc, caller,
                   ldirs, di, ret, prev>>
    /\ UNCHANGED <<verVars, qryVars>>

\* load, one iteration of the inner loop on an entry read without error:
\* its objects, if any, go to the local vector.
LoadEntry ==
    /\ pc = "loading"
    /\ HasEntry
    /\ CurrentEntry.type # "err"
    /\ acc' = acc \o EntryObjects(CurrentEntry)
    /\ ei' = ei + 1
    /\ UNCHANGED <<fs, changes, state, directories, objects, pc, caller,
                   ldirs, di, ret, prev>>
    /\ UNCHANGED <<verVars, qryVars>>

\* load: the walk of the current directory is over, the outer loop goes on.
LoadNextDirectory ==
    /\ pc = "loading"
    /\ di <= Len(ldirs)
    /\ ei > Len(fs[ldirs[di]])
    /\ di' = di + 1
    /\ ei' = 1
    /\ UNCHANGED <<fs, changes, state, directories, objects, pc, caller,
                   ldirs, acc, ret, prev>>
    /\ UNCHANGED <<verVars, qryVars>>

\* A reload that has discarded the current objects before it loads.
LoadFailDiscarding ==
    /\ pc = "loading"
    /\ HasEntry
    /\ CurrentEntry.type = "err"
    /\ pc' = "idle"
    /\ ret' = "Err"
    /\ acc' = << >>
    /\ objects' = IF caller = "reload" THEN << >> ELSE objects
    /\ UNCHANGED <<fs, changes, state, directories, caller, ldirs, di, ei,
                   prev>>
    /\ UNCHANGED <<verVars, qryVars>>

\* A load that answers a walk error with what it has collected so far.
LoadFailPartial ==
    /\ pc = "loading"
    /\ HasEntry
    /\ CurrentEntry.type = "err"
    /\ pc' = "idle"
    /\ ret' = "Ok"
    /\ acc' = << >>
    /\ objects' = acc
    /\ state' = "Loaded"
    /\ directories' = ldirs
    /\ UNCHANGED <<fs, changes, caller, ldirs, di, ei, prev>>
    /\ UNCHANGED <<verVars, qryVars>>

\* entry? on a walk error: load returns the error and its local vector is
\* dropped; the ? of init / reload returns it to the caller before the
\* registry is built or assigned.
LoadFail ==
    /\ pc = "loading"
    /\ HasEntry
    /\ CurrentEntry.type = "err"
    /\ pc' = "idle"
    /\ ret' = "Err"
    /\ acc' = << >>
    /\ UNCHANGED <<fs, changes, state, directories, objects, caller, ldirs,
                   di, ei, prev>>
    /\ UNCHANGED <<verVars, qryVars>>

\* What init builds from a finished load.
InitRegistry(dirs, objs) == [directories |-> dirs, objects |-> objs]

\* A reload that extends the collection instead of replacing it.
ReloadExtend(old, loaded) == old \o loaded

\* What reload assigns to self.objects from a finished load.
ReloadAssign(old, loaded) == loaded

\* load returns Ok(objects) after the last directory; init builds the
\* registry from it, reload assigns it to self.objects.
LoadFinish ==
    /\ pc = "loading"
    /\ di > Len(ldirs)
    /\ pc' = "idle"
    /\ ret' = "Ok"
    /\ acc' = << >>
    /\ IF caller = "init"
       THEN /\ state' = "Loaded"
            /\ directories' = InitRegistry(ldirs, acc).directories
            /\ objects' = InitRegistry(ldirs, acc).objects
       ELSE /\ objects' = ReloadAssign(objects, acc)
            /\ UNCHANGED <<state, directories>>
    /\ UNCHANGED <<fs, changes, caller, ldirs, di, ei, prev>>
    /\ UNCHANGED <<verVars, qryVars>>

Next ==
    \/ FsChange
    \/ InitCall
    \/ ReloadCall
    \/ LoadEntry
    \/ LoadNextDirectory
    \/ LoadFail
    \/ LoadFinish

Spec == Init /\ [][Next]_vars

(***************************************************************************)
(* The queries of the Registry (src/lib.rs), as functions of self.objects. *)
(***************************************************************************)
\* The closure |o| o.object_id == object_id && o.object_version == version
MatchesId(o, object_id, version) ==
    o.object_id = object_id /\ o.object_version = version

\* Registry::has_object_id: Iterator::any
RECURSIVE has_object_id(_, _, _)
has_object_id(objs, object_id, version) ==
    IF objs = << >> THEN FALSE
    ELSE IF MatchesId(Head(objs), object_id, version) THEN TRUE
    ELSE has_object_id(Tail(objs), object_id, version)

\* A scan that keeps the last match instead of the first.
RECURSIVE get_object_by_id_last(_, _, _)
get_object_by_id_last(objs, object_id, version) ==
    IF objs = << >> THEN None
    ELSE IF MatchesId(objs[Len(objs)], object_id, version)
         THEN Some(objs[Len(objs)])
         ELSE get_object_by_id_last(SubSeq(objs, 1, Len(objs) - 1),
                                    object_id, version)

\* Registry::get_object_by_id: Iterator::find
RECURSIVE get_object_by_id(_, _, _)
get_object_by_id(objs, object_id, version) ==
    IF objs = << >> THEN None
    ELSE IF MatchesId(Head(objs), object_id, version) THEN Some(Head(objs))
    ELSE get_object_by_id(Tail(objs), object_id, version)

\* if let Some(obj) = obj { return Some(obj.name.clone()) } None
NameOf(obj) == IF obj # None THEN Some(obj[1].name) ELSE None
UrnOf(obj) == IF obj # None THEN Some(obj[1].object_urn) ELSE None

\* Registry::get_object_name
get_object_name(objs, object_id, version) ==
    NameOf(get_object_by_id(objs, object_id, version))

\* Registry::get_object_urn
get_object_urn(objs, object_id, version) ==
    UrnOf(get_object_by_id(objs, object_id, version))

\* obj.resources.iter().find(|r| r.id == resource_id)
RECURSIVE FindResourceById(_, _)
FindResourceById(resources, resource_id) ==
    IF resources = << >> THEN None
    ELSE IF Head(resources).id = resource_id THEN Some(Head(resources))
    ELSE FindResourceById(Tail(resources), resource_id)

\* obj.resources.iter().find(|r| r.name == resource_name)
RECURSIVE FindResourceByName(_, _)
FindResourceByName(resources, resource_name) ==
    IF resources = << >> THEN None
    ELSE IF Head(resources).name = resource_name THEN Some(Head(resources))
    ELSE FindResourceByName(Tail(resources), resource_name)

\* A lookup that answers with an empty default resource instead of None.
ResourceByIdOrDefault(obj, resource_id) ==
    IF obj # None /\ FindResourceById(obj[1].resources, resource_id) # None
    THEN FindResourceById(obj[1].resources, resource_id)
    ELSE Some([id |-> resource_id, name |-> "", operations |-> "None",
               has_multiple_instances |-> FALSE, is_mandatory |-> FALSE,
               resource_type |-> "Other"])

ResourceByIdOf(obj, resource_id) ==
    IF obj # None THEN FindResourceById(obj[1].resources, resource_id)
    ELSE None

\* A lookup that goes on to later objects with the pair when the first one
\* has no resource with the id.
get_resource_by_id_any(objs, object_id, version, resource_id) ==
    LET hits == {i \in 1..Len(objs) :
                    /\ MatchesId(objs[i], object_id, version)
                    /\ FindResourceById(objs[i].resources, resource_id)
                          # None}
    IN  IF hits = {} THEN None
        ELSE FindResourceById(
                 objs[CHOOSE i \in hits : \A j \in hits : i <= j].resources,
                 resource_id)

\* Registry::get_resource_by_id
get_resource_by_id(objs, object_id, version, resource_id) ==
    ResourceByIdOf(get_object_by_id(objs, object_id, version), resource_id)

ResourceNameOf(res) == IF res # None THEN Some(res[1].name) ELSE None
ResourceIdOf(res) == IF res # None THEN Some(res[1].id) ELSE None
ResourceTypeOf(res) == IF res # None THEN Some(res[1].resource_type) ELSE None
ResourceMultiOf(res) ==
    IF res # None THEN Some(res[1].has_multiple_instances) ELSE None

\* Registry::get_resource_name
get_resource_name(objs, object_id, version, resource_id) ==
    ResourceNameOf(get_resource_by_id(objs, object_id, version, resource_id))

ResourceIdByNameOf(obj, resource_name) ==
    IF obj # None
    THEN ResourceIdOf(FindResourceByName(obj[1].resources, resource_name))
    ELSE None

\* Registry::get_resource_id_by_name
get_resource_id_by_name(objs, object_id, version, resource_name) ==
    ResourceIdByNameOf(get_object_by_id(objs, object_id, version),
                       resource_name)

\* Registry::get_resource_type
get_resource_type(objs, object_id, version, resource_id) ==
    ResourceTypeOf(get_resource_by_id(objs, object_id, version, resource_id))

\* Registry::is_resource_multi_instance
is_resource_multi_instance(objs, object_id, version, resource_id) ==
    ResourceMultiOf(get_resource_by_id(objs, object_id, version, resource_id))

\* A comparison that looks at minor before major.
VersionCmpMinorFirst(a, b) ==
    IF a.minor < b.minor THEN "Less"
    ELSE IF a.minor > b.minor THEN "Greater"
    ELSE IF a.major < b.major THEN "Less"
    ELSE IF a.major > b.major THEN "Greater"
    ELSE "Equal"

\* #[derive(PartialOrd, Ord)] on Version: the fields in declaration order.
VersionCmp(a, b) ==
    IF a.major < b.major THEN "Less"
    ELSE IF a.major > b.major THEN "Greater"
    ELSE IF a.minor < b.minor THEN "Less"
    ELSE IF a.minor > b.minor THEN "Greater"
    ELSE "Equal"

\* .filter(|o| o.name == name).collect()
RECURSIVE FilterByName(_, _)
FilterByName(objs, name) ==
    IF objs = << >> THEN << >>
    ELSE IF Head(objs).name = name
         THEN <<Head(objs)>> \o FilterByName(Tail(objs), name)
         ELSE FilterByName(Tail(objs), name)

\* An insertion that puts o before the elements equal to it.
RECURSIVE InsertBeforeEqual(_, _)
InsertBeforeEqual(sorted, o) ==
    IF sorted = << >> THEN <<o>>
    ELSE IF VersionCmp(Head(sorted).object_version, o.object_version) # "Less"
         THEN <<o>> \o sorted
         ELSE <<Head(sorted)>> \o InsertBeforeEqual(Tail(sorted), o)

\* One insertion of a stable sort: o goes after every element of the sorted
\* sequence that is not greater than it.
RECURSIVE InsertByVersion(_, _)
InsertByVersion(sorted, o) ==
    IF sorted = << >> THEN <<o>>
    ELSE IF VersionCmp(Head(sorted).object_version, o.object_version) = "Greater"
         THEN <<o>> \o sorted
         ELSE <<Head(sorted)>> \o InsertByVersion(Tail(sorted), o)

\* objs.sort_by_key(|o| &o.object_version): a stable sort.
RECURSIVE SortByVersion(_)
SortByVersion(objs) ==
    IF objs = << >> THEN << >>
    ELSE InsertByVersion(SortByVersion(SubSeq(objs, 1, Len(objs) - 1)),
                         objs[Len(objs)])

\* if !objs.is_empty() { if let Some(obj) = objs.pop() { .. } } None
PopIdVersion(objs) ==
    IF objs # << >>
    THEN Some(<<objs[Len(objs)].object_id, objs[Len(objs)].object_version>>)
    ELSE None

\* Registry::get_object_id_by_name_newest
get_object_id_by_name_newest(objs, name) ==
    PopIdVersion(SortByVersion(FilterByName(objs, name)))

\* A listing that gives each pair once, at its first occurrence.
RECURSIVE IdsOnce(_, _)
IdsOnce(objs, seen) ==
    IF objs = << >> THEN << >>
    ELSE IF <<Head(objs).object_id, Head(objs).object_version>> \in seen
         THEN IdsOnce(Tail(objs), seen)
         ELSE <<<<Head(objs).object_id, Head(objs).object_version>>>>
              \o IdsOnce(Tail(objs),
                         seen \cup {<<Head(objs).object_id,
                                      Head(objs).object_version>>})

get_object_ids_once(objs) == IdsOnce(objs, {})

\* Registry::get_object_ids
get_object_ids(objs) ==
    [i \in 1..Len(objs) |-> <<objs[i].object_id, objs[i].object_version>>]

(***************************************************************************)
(* The queries on their own: the registry is Loaded with any collection of *)
(* at most MaxObjs objects of QueryObjects, duplicates included.           *)
(***************************************************************************)
Decoded(el) == DeserializeObject(el).val

QueryObjects ==
    {Decoded(ElServer11),
     Decoded(ElServer12),
     Decoded([ElServer12 EXCEPT !.ObjectID = 3]),
     Decoded([ElServer11 EXCEPT !.ObjectVersion = <<"2">>]),
     Decoded(ElDevice),
     Decoded([ElDevice EXCEPT !.ObjectID = 1,
                              !.Resources = <<[ItemDisable EXCEPT !.ID = 0],
                                              ItemShortServerId>>])}

Collections == UNION {[1..n -> QueryObjects] : n \in 0..MaxObjs}

QueryIds == {1, 3, 9}
QueryVersions ==
    {VersionNew(1, 1), VersionNew(1, 2), VersionNew(2, 0), VersionNew(0, 2)}
QueryResourceIds == {0, 4, 7}
QueryNames == {"LwM2M Server", "Device", "Unknown Object"}
QueryResourceNames == {"Short Server ID", "Disable", "Unknown"}

InitQuery ==
    /\ fs = InitialFs
    /\ changes = 0
    /\ state = "Loaded"
    /\ directories = << >>
    /\ objects \in Collections
    /\ LoaderIdle
    /\ NoVersion
    /\ NoQuery

\* A query is a pure function of self.objects: a behaviour makes one query,
\* with any arguments, of the collection it started with.
Answer(op, args, res) ==
    /\ state = "Loaded"
    /\ qop = "none"
    /\ qop' = op
    /\ qargs' = args
    /\ qres' = res
    /\ UNCHANGED <<regVars, verVars>>

HasObjectId ==
    \E id \in QueryIds, v \in QueryVersions :
        Answer("has_object_id", <<id, v>>, has_object_id(objects, id, v))

GetObjectById ==
    \E id \in QueryIds, v \in QueryVersions :
        Answer("get_object_by_id", <<id, v>>, get_object_by_id(objects, id, v))

GetObjectName ==
    \E id \in QueryIds, v \in QueryVersions :
        Answer("get_object_name", <<id, v>>, get_object_name(objects, id, v))

GetObjectUrn ==
    \E id \in QueryIds, v \in QueryVersions :
        Answer("get_object_urn", <<id, v>>, get_object_urn(objects, id, v))

GetResourceById ==
    \E id \in QueryIds, v \in QueryVersions, r \in QueryResourceIds :
        Answer("get_resource_by_id", <<id, v, r>>,
               get_resource_by_id(objects, id, v, r))

GetResourceName ==
    \E id \in QueryIds, v \in QueryVersions, r \in QueryResourceIds :
        Answer("get_resource_name", <<id, v, r>>,
               get_resource_name(objects, id, v, r))

GetResourceIdByName ==
    \E id \in QueryIds, v \in QueryVersions, n \in QueryResourceNames :
        Answer("get_resource_id_by_name", <<id, v, n>>,
               get_resource_id_by_name(objects, id, v, n))

GetResourceType ==
    \E id \in QueryIds, v \in QueryVersions, r \in QueryResourceIds :
        Answer("get_resource_type", <<id, v, r>>,
               get_resource_type(objects, id, v, r))

IsResourceMultiInstance ==
    \E id \in QueryIds, v \in QueryVersions, r \in QueryResourceIds :
        Answer("is_resource_multi_instance", <<id, v, r>>,
               is_resource_multi_instance(objects, id, v, r))

GetObjectIdByNameNewest ==
    \E n \in QueryNames :
        Answer("get_object_id_by_name_newest", <<n>>,
               get_object_id_by_name_newest(objects, n))

GetObjectIds ==
    Answer("get_object_ids", << >>, get_object_ids(objects))

NextQuery ==
    \/ HasObjectId
    \/ GetObjectById
    \/ GetObjectName
    \/ GetObjectUrn
    \/ GetResourceById
    \/ GetResourceName
    \/ GetResourceIdByName
    \/ GetResourceType
    \/ IsResourceMultiInstance
    \/ GetObjectIdByNameNewest
    \/ GetObjectIds

SpecQuery == InitQuery /\ [][NextQuery]_vars

(***************************************************************************)
(* Version::from_str on its own: the input is any string of at most        *)
(* MaxVLen characters over VersionChars.                                   *)
(***************************************************************************)
VersionChars == {"0", "5", "6", ".", " ", "x", "+"}

VersionStrings == UNION {[1..n -> VersionChars] : n \in 0..MaxVLen}

InitVersion ==
    /\ fs = InitialFs
    /\ changes = 0
    /\ state = "Uninitialized"
    /\ directories = << >>
    /\ objects = << >>
    /\ LoaderIdle
    /\ vstr \in VersionStrings
    /\ vres = NotParsed
    /\ NoQuery

ParseVersion ==
    /\ vres = NotParsed
    /\ vres' = from_str(vstr)
    /\ UNCHANGED <<regVars, vstr, qryVars>>

NextVersion == ParseVersion

SpecVersion == InitVersion /\ [][NextVersion]_vars

(***************************************************************************)
(* C10.  What the text of a version denotes, read off the string itself.   *)
(***************************************************************************)
\* The positions of the characters that are not whitespace.
InkPositions(s) == {i \in 1..Len(s) : ~IsWhitespace(s[i])}
Least(S) == CHOOSE x \in S : \A y \in S : x <= y
Greatest(S) == CHOOSE x \in S : \A y \in S : x >= y

\* The string between its first and its last non-whitespace character.
Trimmed(s) ==
    IF InkPositions(s) = {} THEN << >>
    ELSE SubSeq(s, Least(InkPositions(s)), Greatest(InkPositions(s)))

\* The positions of the dots, with a sentinel before and after the string.
DotMarks(s) == {0, Len(s) + 1} \cup {i \in 1..Len(s) : s[i] = "."}

\* The k-th segment: what lies between the k-th mark and the next one.
NthMark(s, k) ==
    CHOOSE m \in DotMarks(s) : Cardinality({n \in DotMarks(s) : n < m}) = k - 1
SegmentCount(s) == Cardinality(DotMarks(s)) - 1
Segment(s, k) == SubSeq(s, NthMark(s, k) + 1, NthMark(s, k + 1) - 1)

\* A segment that is a non-negative integer: decimal digits, at least one,
\* after at most one leading plus sign.
Unsigned(seg) == IF seg # << >> /\ Head(seg) = "+" THEN Tail(seg) ELSE seg
IsNumeral(seg) ==
    /\ Unsigned(seg) # << >>
    /\ \A i \in 1..Len(Unsigned(seg)) : Unsigned(seg)[i] \in DigitChars

RECURSIVE Pow10(_)
Pow10(n) == IF n = 0 THEN 1 ELSE 10 * Pow10(n - 1)

RECURSIVE PlaceSum(_, _)
PlaceSum(d, i) ==
    IF i > Len(d) THEN 0
    ELSE DigitVal(d[i]) * Pow10(Len(d) - i) + PlaceSum(d, i + 1)

NumeralValue(seg) == PlaceSum(Unsigned(seg), 1)

FitsU16(seg) == IsNumeral(seg) /\ NumeralValue(seg) <= U16Max

\* The version a string denotes, or the version-parse error.
Denoted(s) ==
    LET t == Trimmed(s)
    IN  IF /\ SegmentCount(t) \in {1, 2}
           /\ \A k \in 1..SegmentCount(t) : FitsU16(Segment(t, k))
        THEN Ok([major |-> NumeralValue(Segment(t, 1)),
                 minor |-> IF SegmentCount(t) = 2
                           THEN NumeralValue(Segment(t, 2)) ELSE 0])
        ELSE Err("ParseVersionError")

\* C10: once a string has been parsed, the result is the version it denotes:
\* one 16-bit segment gives (value, 0), two give (first, second), and three
\* or more segments, an empty, non-numeric or whitespace-holding segment or a
\* value above 65535 give the version-parse error.
C10_VersionParse == vres # NotParsed => vres = Denoted(vstr)

\* A string with outer whitespace and two segments has been parsed.
C10_Witness ==
    /\ vstr = <<" ", "5", ".", "6", " ">>
    /\ vres = Ok(VersionNew(5, 6))

(***************************************************************************)
(* C7, C8, C9.  The answers of the queries, read off the collection.       *)
(***************************************************************************)
\* The positions of the objects with the pair (id, version).
Matches(id, version) ==
    {i \in 1..Len(objects) :
        objects[i].object_id = id /\ objects[i].object_version = version}

FirstMatch(id, version) == objects[Least(Matches(id, version))]

QId == qargs[1]
QVersion == qargs[2]

\* C7: get_object_by_id answers with the first object in load order that has
\* the pair, or with nothing; has_object_id is true exactly when there is
\* one; get_object_name and get_object_urn answer with the name and the urn
\* of that first object.
C7_FirstMatch ==
    /\ qop = "get_object_by_id" =>
          qres = IF Matches(QId, QVersion) = {} THEN None
                 ELSE Some(FirstMatch(QId, QVersion))
    /\ qop = "has_object_id" =>
          qres = (get_object_by_id(objects, QId, QVersion) # None)
    /\ qop = "has_object_id" => qres = (Matches(QId, QVersion) # {})
    /\ qop = "get_object_name" =>
          qres = IF Matches(QId, QVersion) = {} THEN None
                 ELSE Some(FirstMatch(QId, QVersion).name)
    /\ qop = "get_object_urn" =>
          qres = IF Matches(QId, QVersion) = {} THEN None
                 ELSE Some(FirstMatch(QId, QVersion).object_urn)

\* get_object_by_id has answered on a collection where two different objects
\* have the pair asked for.
C7_Witness ==
    /\ qop = "get_object_by_id"
    /\ \E i, j \in Matches(QId, QVersion) :
          /\ i < j
          /\ objects[i].name # objects[j].name
          /\ qres = Some(objects[i])

\* a <= b in the order of versions: major first, then minor.
VersionLeq(a, b) ==
    a.major < b.major \/ (a.major = b.major /\ a.minor <= b.minor)

\* The positions of the objects named name.
Named(name) == {i \in 1..Len(objects) : objects[i].name = name}

\* Position i holds a newest object named name, and no later one does.
LastNewest(name, i) ==
    /\ i \in Named(name)
    /\ \A j \in Named(name) :
          VersionLeq(objects[j].object_version, objects[i].object_version)
    /\ \A j \in Named(name) :
          j > i => objects[j].object_version # objects[i].object_version

\* C8: get_object_id_by_name_newest answers with nothing when no object has
\* the name, and otherwise with the id and version of the object of that
\* name whose version is the maximum, the last one in load order if several
\* have it.
C8_Newest ==
    qop = "get_object_id_by_name_newest" =>
        IF Named(qargs[1]) = {} THEN qres = None
        ELSE \E i \in Named(qargs[1]) :
                /\ LastNewest(qargs[1], i)
                /\ qres = Some(<<objects[i].object_id,
                                 objects[i].object_version>>)

\* The newest version of the name asked for is held by two objects of
\* different ids, and the answer is the later one.
C8_Witness ==
    /\ qop = "get_object_id_by_name_newest"
    /\ qres # None
    /\ \E i, j \in Named(qargs[1]) :
          /\ i < j
          /\ LastNewest(qargs[1], j)
          /\ objects[i].object_version = objects[j].object_version
          /\ objects[i].object_id # objects[j].object_id
          /\ qres = Some(<<objects[j].object_id, objects[j].object_version>>)

ObjectLookups == {"get_object_by_id", "get_object_name", "get_object_urn"}
ResourceLookups ==
    {"get_resource_by_id", "get_resource_name", "get_resource_type",
     "is_resource_multi_instance"}

\* No object with the pair has a resource with this id (with this name).
NoResourceId(id, version, rid) ==
    \A i \in Matches(id, version) :
        \A k \in 1..Len(objects[i].resources) :
            objects[i].resources[k].id # rid
NoResourceName(id, version, name) ==
    \A i \in Matches(id, version) :
        \A k \in 1..Len(objects[i].resources) :
            objects[i].resources[k].name # name

\* C9: a lookup of a pair, a resource id or a name that the collection does
\* not hold answers with nothing.
C9_NotFound ==
    /\ (qop \in ObjectLookups /\ Matches(QId, QVersion) = {}) => qres = None
    /\ (qop \in ResourceLookups /\ NoResourceId(QId, QVersion, qargs[3]))
          => qres = None
    /\ (qop = "get_resource_id_by_name"
          /\ NoResourceName(QId, QVersion, qargs[3])) => qres = None
    /\ (qop = "get_object_id_by_name_newest" /\ Named(qargs[1]) = {})
          => qres = None

\* A resource type has been asked of an object that exists and has
\* resources, none with the id asked for.
C9_Witness ==
    /\ qop = "get_resource_type"
    /\ Matches(QId, QVersion) # {}
    /\ FirstMatch(QId, QVersion).resources # << >>
    /\ NoResourceId(QId, QVersion, qargs[3])
    /\ qres = None

(***************************************************************************)
(* C1 - C6.  What a load of a file system yields, read off the file system *)
(* itself.                                                                 *)
(***************************************************************************)
\* A regular file whose name ends with .xml, in these letters.
IsXmlFile(e) ==
    /\ e.type = "file"
    /\ Len(e.path) >= 4
    /\ e.path[Len(e.path) - 3] = "."
    /\ e.path[Len(e.path) - 2] = "x"
    /\ e.path[Len(e.path) - 1] = "m"
    /\ e.path[Len(e.path)] = "l"

StrictFieldsOk(x) ==
    /\ x.MultipleInstances \in {"Multiple", "Single"}
    /\ x.Mandatory \in {"Mandatory", "Optional"}

\* An <Object> element all of whose fields decode.
ElementOk(el) ==
    /\ Denoted(el.ObjectVersion).ok
    /\ Denoted(el.LWM2MVersion).ok
    /\ StrictFieldsOk(el)
    /\ \A k \in 1..Len(el.Resources) : StrictFieldsOk(el.Resources[k])

\* A selected file that can be opened, read and decoded as a whole.
DecodesWhole(e) ==
    /\ e.openable
    /\ e.readable
    /\ e.utf8
    /\ e.text.wellformed
    /\ \A k \in 1..Len(e.text.elements) : ElementOk(e.text.elements[k])

\* A selected file with a failure local to it.
FailsLocally(e) == IsXmlFile(e) /\ ~DecodesWhole(e)

\* The objects an entry stands for.
Contribution(e) ==
    IF IsXmlFile(e) /\ DecodesWhole(e)
    THEN [k \in 1..Len(e.text.elements) |-> Decoded(e.text.elements[k])]
    ELSE << >>

RECURSIVE WalkObjects(_)
WalkObjects(walk) ==
    IF walk = << >> THEN << >>
    ELSE Contribution(Head(walk)) \o WalkObjects(Tail(walk))

\* The complete result of loading the directories dirs of the file system f.
RECURSIVE ExpectedLoad(_, _)
ExpectedLoad(f, dirs) ==
    IF dirs = << >> THEN << >>
    ELSE WalkObjects(f[Head(dirs)]) \o ExpectedLoad(f, Tail(dirs))

\* Some walk of dirs holds an entry that could not be read.
HasWalkError(f, dirs) ==
    \E k \in 1..Len(dirs) : \E i \in 1..Len(f[dirs[k]]) :
        f[dirs[k]][i].type = "err"

\* The running load is at an entry that the walk could not read.
AtWalkError == pc = "loading" /\ HasEntry /\ CurrentEntry.type = "err"

\* C1: when a reload meets a walk error it returns the error, and the
\* collection is the one the registry held when reload was called; it stays
\* so for as long as that error is the last thing returned.
C1_FailedReloadKeeps ==
    [][ /\ (AtWalkError /\ caller = "reload") =>
              (pc' = "idle" /\ ret' = "Err" /\ objects' = prev)
        /\ (caller' = "reload" /\ ret' = "Err") =>
              (objects' = prev' /\ state' = "Loaded") ]_vars

\* A reload of a registry that holds objects has failed.
C1_Witness ==
    /\ caller = "reload"
    /\ pc = "idle"
    /\ ret = "Err"
    /\ objects # << >>
    /\ objects = prev

\* C2: while a load runs the collection is not touched (during init there
\* is no registry yet), and every step that changes the collection or
\* creates the registry is the one step that ends a load with Ok and
\* installs its complete result.
C2_NoPartialState ==
    [][ /\ (pc' = "loading" /\ caller' = "reload") => objects' = prev'
        /\ (pc' = "loading" /\ caller' = "init") => state' = "Uninitialized"
        /\ (objects' # objects \/ state' # state) =>
              /\ pc = "loading"
              /\ pc' = "idle"
              /\ ret' = "Ok"
              /\ state' = "Loaded"
              /\ objects' = ExpectedLoad(fs, ldirs) ]_vars

\* A reload is under way; what it has collected so far is neither empty nor
\* the collection of the registry.
C2_Witness ==
    /\ pc = "loading"
    /\ caller = "reload"
    /\ acc # << >>
    /\ objects # << >>
    /\ acc # objects

\* C3: a step of the load on a selected file with a local failure adds no
\* object, leaves what was collected as it was, goes on to the next entry
\* and returns nothing.
C3_LocalFailureSkipped ==
    [][ (pc = "loading" /\ HasEntry /\ FailsLocally(CurrentEntry)) =>
            /\ acc' = acc
            /\ pc' = "loading"
            /\ ret' = "none"
            /\ di' = di
            /\ ei' = ei + 1
            /\ objects' = objects ]_vars

\* The load has gone past a file that fails although its first object is
\* well-formed, with objects collected before it, and is at a later entry.
C3_Witness ==
    /\ pc = "loading"
    /\ di <= Len(ldirs)
    /\ ei > 2
    /\ ei <= Len(fs[ldirs[di]])
    /\ FailsLocally(fs[ldirs[di]][ei - 1])
    /\ fs[ldirs[di]][ei - 1].text.elements # << >>
    /\ ElementOk(fs[ldirs[di]][ei - 1].text.elements[1])
    /\ acc # << >>

\* C4: at a walk error the load stops and returns the error and no object;
\* the registry, if there is one, is left as it was, and after an init that
\* returned an error there is no registry.
C4_WalkErrorFatal ==
    [][ /\ AtWalkError =>
              /\ pc' = "idle"
              /\ ret' = "Err"
              /\ acc' = << >>
              /\ state' = state
              /\ objects' = objects
              /\ directories' = directories
        /\ (caller' = "init" /\ ret' = "Err") =>
              (state' = "Uninitialized" /\ objects' = << >>) ]_vars

\* An init has failed in its second directory, after a file of the first
\* one had been decoded.
C4_Witness ==
    /\ caller = "init"
    /\ pc = "idle"
    /\ ret = "Err"
    /\ state = "Uninitialized"
    /\ di = 2
    /\ Contribution(fs[ldirs[1]][2]) # << >>

\* C5: the step that ends a reload with Ok leaves as the collection the
\* complete result of loading the directories given to init, as they are
\* now; and a reload ends with an error only if a walk has an error, so
\* files that fail to decode do not make it fail.
C5_ReloadReplaces ==
    [][ (caller = "reload" /\ pc = "loading" /\ pc' = "idle") =>
            /\ directories' = directories
            /\ ret' = "Ok" => objects' = ExpectedLoad(fs', directories')
            /\ ret' = "Err" => HasWalkError(fs, directories)
            /\ ret' \in {"Ok", "Err"} ]_vars

\* A reload has succeeded and has emptied a collection that held objects.
C5_Witness ==
    /\ caller = "reload"
    /\ pc = "idle"
    /\ ret = "Ok"
    /\ prev # << >>
    /\ objects = << >>

\* Object o is decoded from a regular .xml file of the directories dirs.
FromXmlFile(o, f, dirs) ==
    \E k \in 1..Len(dirs) : \E i \in 1..Len(f[dirs[k]]) :
        /\ IsXmlFile(f[dirs[k]][i])
        /\ \E n \in 1..Len(Contribution(f[dirs[k]][i])) :
              Contribution(f[dirs[k]][i])[n] = o

\* The directory of one well-formed document, one document with a
\* strict-field error and one file that is not .xml.
ThreeFileDirectory == <<DirEntry, FileServer11, FileStrictError, FileTxt>>

\* C6: every object a finished load installs is decoded from a regular file
\* whose name ends with .xml; and the load of the three-file directory
\* succeeds with exactly the objects of its well-formed document.
C6_OnlyXmlFiles ==
    [][ (pc = "loading" /\ pc' = "idle") =>
            /\ ret' = "Ok" =>
                  \A n \in 1..Len(objects') :
                      FromXmlFile(objects'[n], fs, ldirs)
            /\ (ldirs = <<"d1">> /\ fs["d1"] = ThreeFileDirectory) =>
                  /\ ret' = "Ok"
                  /\ objects' = <<Decoded(ElServer11)>> ]_vars

\* The three-file directory has been loaded.
C6_Witness ==
    /\ pc = "idle"
    /\ ret = "Ok"
    /\ state = "Loaded"
    /\ directories = <<"d1">>
    /\ fs["d1"] = ThreeFileDirectory
    /\ objects = <<Decoded(ElServer11)>>

(***************************************************************************)
(* The order of Version on its own: three versions are compared pairwise.  *)
(* A component is a small number or the greatest u16.                      *)
(***************************************************************************)
Components == (0..MaxVer) \cup {U16Max}

Versions == {VersionNew(major, minor) : major \in Components,
                                        minor \in Components}

\* a < b, a == b as the derived PartialOrd / PartialEq give them.
VersionLt(a, b) == VersionCmp(a, b) = "Less"
VersionEq(a, b) == VersionCmp(a, b) = "Equal"

InitOrder ==
    /\ fs = InitialFs
    /\ changes = 0
    /\ state = "Uninitialized"
    /\ directories = << >>
    /\ objects = << >>
    /\ LoaderIdle
    /\ NoVersion
    /\ NoQuery

\* The comparisons of a with b, b with a, b with c and a with c.
CompareVersions ==
    /\ qop = "none"
    /\ \E a \in Versions, b \in Versions, c \in Versions :
          /\ qargs' = <<a, b, c>>
          /\ qres' = [ab |-> VersionCmp(a, b), ba |-> VersionCmp(b, a),
                      bc |-> VersionCmp(b, c), ac |-> VersionCmp(a, c),
                      lt |-> VersionLt(a, b), eq |-> VersionEq(a, b)]
    /\ qop' = "cmp"
    /\ UNCHANGED <<regVars, verVars>>

NextOrder == CompareVersions

SpecOrder == InitOrder /\ [][NextOrder]_vars

\* C11: the order of versions is a strict total order that compares major
\* first and minor second: of a < b, a = b, b < a exactly one holds, the
\* order is transitive, and a < b exactly when a.major < b.major, or the
\* majors are equal and a.minor < b.minor.
C11_TotalOrder ==
    qop = "cmp" =>
        LET a == qargs[1]
            b == qargs[2]
            c == qargs[3]
        IN  /\ (qres.ab = "Less" /\ a # b /\ qres.ba # "Less")
               \/ (qres.ab # "Less" /\ a = b /\ qres.ba # "Less")
               \/ (qres.ab # "Less" /\ a # b /\ qres.ba = "Less")
            /\ (qres.ab = "Less" /\ qres.bc = "Less") => qres.ac = "Less"
            /\ qres.ab = "Less" <=>
                  \/ a.major < b.major
                  \/ a.major = b.major /\ a.minor < b.minor
            /\ qres.lt <=> qres.ab = "Less"
            /\ qres.eq <=> a = b
            /\ qres.ab = "Greater" <=> qres.ba = "Less"

\* Version(1,1), Version(1,2) and Version(2,0) have been compared, and each
\* is less than the next.
C11_Witness ==
    /\ qop = "cmp"
    /\ qargs = <<VersionNew(1, 1), VersionNew(1, 2), VersionNew(2, 0)>>
    /\ qres.ab = "Less"
    /\ qres.bc = "Less"
    /\ qres.ac = "Less"

(***************************************************************************)
(* The field decoders on their own: one text, drawn from the codes of the  *)
(* document format and from texts near them, is handed to one decoder.     *)
(***************************************************************************)
FieldTexts ==
    {"Multiple", "Single", "Mandatory", "Optional",
     "R", "W", "RW", "E",
     "String", "Integer", "Float", "Boolean", "Opaque", "Time", "Objlnk",
     "Unsigned Integer", "Corelnk",
     "", " ", "multiple", "MULTIPLE", "Single ", "Many", "mandatory",
     " Optional", "Maybe", "r", "rw", "WR", "RWE", "X", "None", "Read",
     "string", "Integer ", "Objlink", "ObjectLink", "UnsignedInteger",
     "Unsigned integer", "Corelink", "Other", "Double"}

InitDecode ==
    /\ fs = InitialFs
    /\ changes = 0
    /\ state = "Uninitialized"
    /\ directories = << >>
    /\ objects = << >>
    /\ LoaderIdle
    /\ NoVersion
    /\ qop = "none"
    /\ \E s \in FieldTexts : qargs = <<s>>
    /\ qres = << >>

Decode(op, res) ==
    /\ qop = "none"
    /\ qop' = op
    /\ qres' = res
    /\ UNCHANGED <<regVars, verVars, qargs>>

DecodeMultipleInstances ==
    Decode("deserialize_multiple_instances",
           deserialize_multiple_instances(qargs[1]))

DecodeMandatory ==
    Decode("deserialize_mandatory", deserialize_mandatory(qargs[1]))

DecodeOperations ==
    Decode("deserialize_operations", deserialize_operations(qargs[1]))

DecodeResourceType ==
    Decode("deserialize_resource_type", deserialize_resource_type(qargs[1]))

NextDecode ==
    \/ DecodeMultipleInstances
    \/ DecodeMandatory
    \/ DecodeOperations
    \/ DecodeResourceType

SpecDecode == InitDecode /\ [][NextDecode]_vars

\* The codes of the four fields and what they stand for.
MultiplicityCodes == {<<"Multiple", TRUE>>, <<"Single", FALSE>>}
MandatoryCodes == {<<"Mandatory", TRUE>>, <<"Optional", FALSE>>}
OperationsCodes ==
    {<<"R", "Read">>, <<"W", "Write">>, <<"RW", "ReadWrite">>,
     <<"E", "Execute">>}
ResourceTypeCodes ==
    {<<"String", "String">>, <<"Integer", "Integer">>, <<"Float", "Float">>,
     <<"Boolean", "Boolean">>, <<"Opaque", "Opaque">>, <<"Time", "Time">>,
     <<"Objlnk", "ObjectLink">>, <<"Unsigned Integer", "UnsignedInteger">>,
     <<"Corelnk", "Corelink">>}

IsCode(codes, s) == \E c \in codes : c[1] = s
Meaning(codes, s) == (CHOOSE c \in codes : c[1] = s)[2]

\* A strict decoder: the meaning of a code, a decode error for other texts.
StrictResult(codes, s, r) ==
    IF IsCode(codes, s) THEN r.ok /\ r.val = Meaning(codes, s)
    ELSE ~r.ok /\ r.err = "unknown_variant"

\* A lenient decoder: the meaning of a code, the sentinel for other texts,
\* and never an error.
LenientResult(codes, sentinel, s, r) ==
    /\ r.ok
    /\ r.val = IF IsCode(codes, s) THEN Meaning(codes, s) ELSE sentinel

\* C12: the multiplicity and the mandatory decoder map their two codes and
\* return a decode error for every other text; the operations and the
\* resource-type decoder map their codes, map every other text (the empty
\* one included) to None and to Other, and never return an error.
C12_DecoderPolicy ==
    /\ qop = "deserialize_multiple_instances" =>
          StrictResult(MultiplicityCodes, qargs[1], qres)
    /\ qop = "deserialize_mandatory" =>
          StrictResult(MandatoryCodes, qargs[1], qres)
    /\ qop = "deserialize_operations" =>
          LenientResult(OperationsCodes, "None", qargs[1], qres)
    /\ qop = "deserialize_resource_type" =>
          LenientResult(ResourceTypeCodes, "Other", qargs[1], qres)

\* The operations decoder has answered None to the empty text.
C12_Witness ==
    /\ qop = "deserialize_operations"
    /\ qargs = <<"">>
    /\ qres = Ok("None")

(***************************************************************************)
(* C13, C15.  More answers of the queries, read off the collection.        *)
(***************************************************************************)
\* How often the pair p occurs in the sequence of pairs s.
Occurrences(s, p) == Cardinality({k \in 1..Len(s) : s[k] = p})

\* C13: get_object_ids answers with one pair per object, in the order of
\* the collection, so that a pair occurs as often as there are objects
\* with it.
C13_ObjectIds ==
    qop = "get_object_ids" =>
        /\ Len(qres) = Len(objects)
        /\ \A k \in 1..Len(objects) :
              /\ qres[k][1] = objects[k].object_id
              /\ qres[k][2] = objects[k].object_version
        /\ \A id \in QueryIds, v \in QueryVersions :
              Occurrences(qres, <<id, v>>) = Cardinality(Matches(id, v))

\* The ids of a collection that holds a pair twice, in two objects that
\* differ, and another pair have been listed.
C13_Witness ==
    /\ qop = "get_object_ids"
    /\ Len(qres) = 3
    /\ \E i, j \in 1..Len(objects) :
          /\ i < j
          /\ objects[i] # objects[j]
          /\ qres[i] = qres[j]
    /\ \E i, j \in 1..Len(qres) : qres[i] # qres[j]

\* The positions in the resources of o of those with the id rid.
ResourceHits(o, rid) ==
    {k \in 1..Len(o.resources) : o.resources[k].id = rid}

FirstResource(o, rid) == o.resources[Least(ResourceHits(o, rid))]

\* What the lookup op answers with when the resource is r.
FieldAsked(op, r) ==
    CASE op = "get_resource_by_id" -> r
      [] op = "get_resource_name" -> r.name
      [] op = "get_resource_type" -> r.resource_type
      [] op = "is_resource_multi_instance" -> r.has_multiple_instances

\* C15: a resource lookup answers from the first object in load order that
\* has the pair, and from no other: with the first resource of that object
\* that has the id (get_resource_by_id), with the name, the type or the
\* multiplicity of that resource (get_resource_name, get_resource_type,
\* is_resource_multi_instance), and with nothing when no object has the pair
\* or that first object has no resource with the id, whatever later objects
\* with the pair hold.
C15_FirstObjectOnly ==
    qop \in ResourceLookups =>
        qres = IF \/ Matches(QId, QVersion) = {}
                  \/ ResourceHits(FirstMatch(QId, QVersion), qargs[3]) = {}
               THEN None
               ELSE Some(FieldAsked(qop, FirstResource(FirstMatch(QId, QVersion),
                                                       qargs[3])))

\* A resource name has been asked of a pair whose first object has resources
\* but none with the id, while a later object with the pair has one: the
\* answer is nothing.
C15_Witness ==
    /\ qop = "get_resource_name"
    /\ qres = None
    /\ Matches(QId, QVersion) # {}
    /\ FirstMatch(QId, QVersion).resources # << >>
    /\ ResourceHits(FirstMatch(QId, QVersion), qargs[3]) = {}
    /\ \E j \in Matches(QId, QVersion) :
          ResourceHits(objects[j], qargs[3]) # {}

(***************************************************************************)
(* C14.  The place of every object in the result of a load.                *)
(***************************************************************************)
\* What the objects c of the i-th entry of the walk of the k-th directory
\* add to the finds: <<k, i, n, o>> says that the n-th of them is o.
FoundIn(k, i, c) == {<<k, i, n, c[n]>> : n \in 1..Len(c)}

\* All the finds of the first upto entries of the walk of the k-th
\* directory of dirs.
FoundUpTo(f, dirs, k, upto) ==
    UNION {FoundIn(k, i, Contribution(f[dirs[k]][i])) : i \in 1..upto}

\* All the finds of the directories dirs.
Found(f, dirs) ==
    UNION {FoundUpTo(f, dirs, k, Len(f[dirs[k]])) : k \in 1..Len(dirs)}

\* The finds in the entries the running load has gone past.
FoundSoFar ==
    IF di > Len(ldirs)
    THEN Found(fs, ldirs)
    ELSE Found(fs, SubSeq(ldirs, 1, di - 1))
             \cup FoundUpTo(fs, ldirs, di, ei - 1)

\* Find p is discovered before find q.
Before(p, q) ==
    \/ p[1] < q[1]
    \/ p[1] = q[1] /\ p[2] < q[2]
    \/ p[1] = q[1] /\ p[2] = q[2] /\ p[3] < q[3]

\* Where the object of find p stands among those of the finds P.
Rank(P, p) == 1 + Cardinality({q \in P : Before(q, p)})

\* The sequence s holds the objects of the finds P, one for each and no
\* other, in the order of discovery.
InDiscoveryOrder(s, P) ==
    /\ Len(s) = Cardinality(P)
    /\ \A p \in P : s[Rank(P, p)] = p[4]

\* C14: what a load has collected holds one object for each find in the
\* entries it has gone past and no other, in the order of discovery:
\* directories as given, entries as the walk yields them, objects as the
\* document has them; and what it returns after the last directory holds
\* them for all finds.
C14_DiscoveryOrder ==
    pc = "loading" =>
        /\ InDiscoveryOrder(acc, FoundSoFar)
        /\ di > Len(ldirs) => InDiscoveryOrder(acc, Found(fs, ldirs))

\* The load of two directories, the one with a document of two objects
\* first, is about to return: the objects of that document come first, in
\* document order, then the object of the other directory.
C14_Witness ==
    /\ pc = "loading"
    /\ ldirs = <<"d2", "d1">>
    /\ di > Len(ldirs)
    /\ fs = InitialFs
    /\ acc = <<Decoded(ElServer12), Decoded(ElDevice), Decoded(ElServer11)>>

====
